---- MODULE Spec2Model ----
(***************************************************************************)
(* Kakona (src/main.ts): a Leaflet page that geocodes Dutch 4-digit postal *)
(* codes through PDOK (primary) and Nominatim (fallback), plots them, and  *)
(* lets the user search one code.                                          *)
(*                                                                         *)
(* Text is modelled as a tuple of one-character strings, so that trim(),   *)
(* the letter-stripping regex and length are computed, not assumed.        *)
(* Numbers are fixed-point integers in units of 1/10000 degree; the two    *)
(* IEEE values the code can meet, NaN and Infinity, are reserved integers  *)
(* outside the range of every coordinate.                                  *)
(*                                                                         *)
(* One action is one run of JavaScript between two awaits: the handler or  *)
(* continuation runs to its next await (or to its end) without any other   *)
(* handler interleaving, as the single-threaded event loop guarantees.     *)
(* The DOM elements the code looks up (status, searchResult, the buttons   *)
(* and the input) are taken to exist.                                      *)
(***************************************************************************)
EXTENDS Integers, Sequences, FiniteSets, TLC

VARIABLES
    boot,              \* position of the DOMContentLoaded handler
    config,            \* Kakona.config.zipcodes (<<>> before it is loaded)
    layerGroup,        \* Kakona.layerGroup: the bulk overlay, a list of layers
    searchLayerGroup,  \* Kakona.searchLayerGroup: the search overlay
    viewport,          \* the map's view (setView / fitBounds)
    status,            \* the text of the #status element
    searchResult,      \* the content of the #searchResult element
    zipcodeInput,      \* the value of the #zipcodeInput element
    runs,              \* the invocations of plotAllZipcodes
    searches,          \* the invocations of searchZipcode
    call               \* one invocation of fetchZipcodeGeometry, kept whole

vars == <<boot, config, layerGroup, searchLayerGroup, viewport, status,
          searchResult, zipcodeInput, runs, searches, call>>

appVars == <<boot, config, layerGroup, searchLayerGroup, viewport, status,
             searchResult, zipcodeInput, runs, searches>>

----------------------------------------------------------------------------
(* Bounds of the model *)

\* batch runs in one page session (the initial one and the reloads)
MaxRuns == 3
\* search triggers in one page session
MaxSearches == 2
\* configured zip codes
MaxCodes == 2

----------------------------------------------------------------------------
(* Text *)

Letters ==
    {"A","B","C","D","E","F","G","H","I","J","K","L","M",
     "N","O","P","Q","R","S","T","U","V","W","X","Y","Z",
     "a","b","c","d","e","f","g","h","i","j","k","l","m",
     "n","o","p","q","r","s","t","u","v","w","x","y","z"}

Digits == {"0","1","2","3","4","5","6","7","8","9"}

Whitespace == {" "}

RECURSIVE TrimStart(_)
TrimStart(s) ==
    IF s # <<>> /\ Head(s) \in Whitespace THEN TrimStart(Tail(s)) ELSE s

RECURSIVE TrimEnd(_)
TrimEnd(s) ==
    IF s # <<>> /\ s[Len(s)] \in Whitespace
    THEN TrimEnd(SubSeq(s, 1, Len(s) - 1))
    ELSE s

\* String.prototype.trim
Trim(s) == TrimEnd(TrimStart(s))

IsLetter(c) == c \in Letters

\* input.replace(/[A-Za-z]/g, '')
trimZipcode(input) == SelectSeq(input, LAMBDA c : ~IsLetter(c))

\* the PostalCode of the data model: exactly 4 decimal digits
IsPostalCode(s) == Len(s) = 4 /\ \A k \in 1..Len(s) : s[k] \in Digits

----------------------------------------------------------------------------
(* Numbers *)

NaN == -999999999
Infinity == 999999999

isNaN(x) == x = NaN

Add(a, b) ==
    IF isNaN(a) \/ isNaN(b) THEN NaN
    ELSE IF a = Infinity \/ b = Infinity THEN Infinity
    ELSE a + b

\* Number(token) on the tokens a centroid text is made of here; a missing
\* array element (undefined) is the token "undefined"
Number(token) ==
    CASE token = "4.9041"    -> 49041
      [] token = "52.3676"   -> 523676
      [] token = "0"         -> 0
      [] token = "60"        -> 600000
      [] token = ""          -> 0
      [] token = "Infinity"  -> Infinity
      [] token = "abc"       -> NaN
      [] token = "undefined" -> NaN

\* Math.cos and Math.sin of (i / points) * 2 * PI for i = 0..19, times 1000
CosTable == <<1000, 951, 809, 588, 309, 0, -309, -588, -809, -951,
              -1000, -951, -809, -588, -309, 0, 309, 588, 809, 951>>

SinTable == <<0, 309, 588, 809, 951, 1000, 951, 809, 588, 309,
              0, -309, -588, -809, -951, -1000, -951, -809, -588, -309>>

\* Math.cos(lat * Math.PI / 180) times 1000, on the latitudes met here
CosLat(lat) ==
    CASE lat = 0        -> 1000
      [] lat = 523676   -> 611
      [] lat = 600000   -> 500
      [] lat = Infinity -> NaN
      [] lat = NaN      -> NaN

----------------------------------------------------------------------------
(* Features and geometries *)

NoGeometry == [type |-> "undefined", coordinates |-> <<>>]

Null == [type |-> "null", properties |-> [postcode |-> <<>>], geometry |-> NoGeometry]

Feature(zipcode, geometry) ==
    [type |-> "Feature", properties |-> [postcode |-> zipcode], geometry |-> geometry]

radius == 200
points == 20

latOffset(i) == (radius * CosTable[i + 1]) \div 1000

lonOffset(i, lat) ==
    IF isNaN(CosLat(lat)) THEN NaN
    ELSE (radius * SinTable[i + 1]) \div CosLat(lat)

\* the loop of lines 92-98: vertex i is [lat + latOffset, lon + lonOffset]
Vertices(lat, lon) ==
    [k \in 1..points |-> <<Add(lat, latOffset(k - 1)), Add(lon, lonOffset(k - 1, lat))>>]

CloseRingLeftOpen(coordinates) == coordinates

\* line 101: coordinates.push(coordinates[0])
CloseRing(coordinates) == Append(coordinates, coordinates[1])

\* line 108: coordinates.map(c => [c[1], c[0]])
SwapPairs(coordinates) ==
    [k \in 1..Len(coordinates) |-> <<coordinates[k][2], coordinates[k][1]>>]

createApproximatePolygon(lat, lon, zipcode) ==
    Feature(zipcode,
            [type |-> "Polygon",
             coordinates |-> << SwapPairs(CloseRing(Vertices(lat, lon))) >>])

----------------------------------------------------------------------------
(* What the two services can answer *)

\* The text of centroide_ll: whether it has the form POINT(...), and the
\* pieces that split(' ') makes of what stands between the parentheses.
NoCentroid == [present |-> FALSE, point |-> FALSE, tokens |-> <<>>]

Centroid(point, tokens) == [present |-> TRUE, point |-> point, tokens |-> tokens]

Centroids ==
    { Centroid(TRUE,  <<"4.9041", "52.3676">>),    \* "POINT(4.9041 52.3676)"
      Centroid(TRUE,  <<"4.9041", "Infinity">>),   \* "POINT(4.9041 Infinity)"
      Centroid(TRUE,  <<"4.9041">>),               \* "POINT(4.9041)"
      Centroid(TRUE,  <<"abc", "52.3676">>),       \* "POINT(abc 52.3676)"
      Centroid(FALSE, <<"4.9041", "52.3676">>) }   \* "4.9041 52.3676"

\* fetch rejected; the body is not JSON or not an object (response.json()
\* or the first property access throws); or a decoded body with its docs
PdokOutcomes ==
    { [kind |-> "NetworkError", docs |-> <<>>],
      [kind |-> "MalformedBody", docs |-> <<>>],
      [kind |-> "Ok", docs |-> <<>>] }
    \cup { [kind |-> "Ok", docs |-> << [centroide_ll |-> c] >>] :
              c \in Centroids \cup {NoCentroid} }

SquareRing == << <<49000, 523000>>, <<49100, 523000>>, <<49100, 523100>>,
                 <<49000, 523100>>, <<49000, 523000>> >>

\* geojson values of a Nominatim result: a polygon, a polygon whose
\* coordinates are not numbers, and an object of a type Leaflet does not know
GeoPolygon == [type |-> "Polygon", coordinates |-> << SquareRing >>]
GeoNotNumbers == [type |-> "Polygon", coordinates |-> << << <<NaN, NaN>> >> >>]
GeoUnknown == [type |-> "Unknown", coordinates |-> <<>>]

NominatimOutcomes ==
    { [kind |-> "NetworkError", results |-> <<>>],
      [kind |-> "MalformedBody", results |-> <<>>],
      [kind |-> "Ok", results |-> <<>>] }
    \cup { [kind |-> "Ok", results |-> << [geojson |-> g] >>] :
              g \in {NoGeometry, GeoPolygon, GeoNotNumbers, GeoUnknown} }

----------------------------------------------------------------------------
(* The Geocode Resolver: fetchZipcodeGeometry and fetchFromNominatim *)

\* line 61: doc.centroide_ll.match(/POINT\(([^\)]+)\)/)
CoordinateMatch(centroide_ll) ==
    /\ centroide_ll.point
    /\ centroide_ll.tokens # <<>>
    /\ centroide_ll.tokens # <<"">>

\* line 63: const [lon, lat] = coordinateMatch[1].split(' ').map(Number)
ParsedLon(centroide_ll) == Number(centroide_ll.tokens[1])

ParsedLat(centroide_ll) ==
    IF Len(centroide_ll.tokens) >= 2
    THEN Number(centroide_ll.tokens[2])
    ELSE Number("undefined")

HasUsableCentroidLatOnly(pdok) ==
    /\ Len(pdok.docs) > 0
    /\ pdok.docs[1].centroide_ll.present
    /\ CoordinateMatch(pdok.docs[1].centroide_ll)
    /\ ~isNaN(ParsedLat(pdok.docs[1].centroide_ll))

\* lines 56-64: the response names a centroid the code accepts
HasUsableCentroid(pdok) ==
    /\ Len(pdok.docs) > 0
    /\ pdok.docs[1].centroide_ll.present
    /\ CoordinateMatch(pdok.docs[1].centroide_ll)
    /\ ~isNaN(ParsedLat(pdok.docs[1].centroide_ll))
    /\ ~isNaN(ParsedLon(pdok.docs[1].centroide_ll))

\* lines 53-54 and the catch of lines 76-79: the request or the decoding threw
PdokThrows(pdok) == pdok.kind \in {"NetworkError", "MalformedBody"}

\* fetchZipcodeGeometry from the primary's answer on: it returns, or it
\* goes on to the fallback request
AfterPdok(zipcode, pdok) ==
    IF PdokThrows(pdok)
    THEN [next |-> "return", value |-> Null]
    ELSE IF HasUsableCentroid(pdok)
    THEN [next |-> "return",
          value |-> createApproximatePolygon(ParsedLat(pdok.docs[1].centroide_ll),
                                             ParsedLon(pdok.docs[1].centroide_ll),
                                             zipcode)]
    ELSE [next |-> "nominatim", value |-> Null]

HasGeojsonUnchecked(nominatim) == Len(nominatim.results) > 0

\* line 128: data.length > 0 && data[0].geojson
HasGeojson(nominatim) ==
    /\ Len(nominatim.results) > 0
    /\ nominatim.results[1].geojson # NoGeometry

\* fetchFromNominatim from the fallback's answer on
fetchFromNominatim(zipcode, nominatim) ==
    IF nominatim.kind \in {"NetworkError", "MalformedBody"}
    THEN Null
    ELSE IF HasGeojson(nominatim)
    THEN Feature(zipcode, nominatim.results[1].geojson)
    ELSE Null

----------------------------------------------------------------------------
(* The Map Host (Leaflet), as far as the code relies on it *)

\* new L.LatLng throws "Invalid LatLng object" when a coordinate is NaN
ValidLatLng(pair) == ~isNaN(pair[1]) /\ ~isNaN(pair[2])

GeometryPoints(geometry) ==
    UNION { { geometry.coordinates[r][k] : k \in 1..Len(geometry.coordinates[r]) } :
            r \in 1..Len(geometry.coordinates) }

\* L.geoJSON(geojson, ...) returns a layer; it throws on a geometry type it
\* does not know and on coordinates that are not numbers
CanRender(geojson) ==
    /\ geojson.geometry.type = "Polygon"
    /\ \A pair \in GeometryPoints(geojson.geometry) : ValidLatLng(pair)

Min(S) == CHOOSE x \in S : \A y \in S : x <= y
Max(S) == CHOOSE x \in S : \A y \in S : x >= y

NoBounds == [south |-> 0, west |-> 0, north |-> 0, east |-> 0]

\* the bounding box of a non-empty set of [lon, lat] pairs
BoundsOf(pairs) ==
    [south |-> Min({p[2] : p \in pairs}), west |-> Min({p[1] : p \in pairs}),
     north |-> Max({p[2] : p \in pairs}), east |-> Max({p[1] : p \in pairs})]

\* new L.FeatureGroup(layers).getBounds()
GroupBounds(layers) ==
    BoundsOf(UNION { GeometryPoints(layers[k].geojson.geometry) : k \in 1..Len(layers) })

\* map.setView(center, zoom) and map.fitBounds(bounds, { padding: [50, 50] })
InitialView == [kind |-> "setView", bounds |-> NoBounds, padding |-> 0]

padding == 50

FitBounds(bounds) == [kind |-> "fitBounds", bounds |-> bounds, padding |-> padding]

Layer(geojson, fillColor, popup) ==
    [geojson |-> geojson, fillColor |-> fillColor, popup |-> popup]

----------------------------------------------------------------------------
(* Configuration *)

AllZipcodes ==
    << <<"1","9","5","1">>, <<"2","0","1","1">>,
       <<"9","9","9","9">>, <<"1","9","4","5">> >>

\* the zipcodes of config.json: the first n codes, n up to MaxCodes
Configs == { SubSeq(AllZipcodes, 1, n) : n \in 0..MaxCodes }

\* this.config.zipcodes.includes(zipcode)
Includes(zipcodes, zipcode) == \E k \in 1..Len(zipcodes) : zipcodes[k] = zipcode

----------------------------------------------------------------------------
(* The status surface *)

StatusText(text, zipcode, successCount, failCount) ==
    [text |-> text, zipcode |-> zipcode,
     successCount |-> successCount, failCount |-> failCount]

StatusBlank == StatusText("", <<>>, 0, 0)
StatusLoading(zipcode) == StatusText("Loading: ...", zipcode, 0, 0)
StatusConfigError == StatusText("Error loading configuration", <<>>, 0, 0)

\* line 205: the failed part is shown only when failCount > 0
StatusLoaded(successCount, failCount) ==
    StatusText(IF failCount > 0 THEN "Loaded successfully, failed" ELSE "Loaded successfully",
               <<>>, successCount, failCount)

----------------------------------------------------------------------------
(* The Batch Plotter: plotAllZipcodes, plotZipcode, clearAll *)

\* One invocation of plotAllZipcodes.  pc is where it waits: "fetch" (in
\* fetchZipcodeGeometry, req naming the request in flight), "delay" (in the
\* setTimeout of line 196) or "done".  i is the position in config.zipcodes.
\* added, fits and pausedBefore record what the invocation did: the layers
\* it added, its calls of fitBounds, and whether the delay elapsed between
\* the previous code and the request for the current one.
IdleRun ==
    [pc |-> "idle", req |-> "none", i |-> 0, successCount |-> 0, failCount |-> 0,
     added |-> 0, fits |-> 0, pausedBefore |-> TRUE]

Runs == 1..MaxRuns

\* plotZipcode, for a geojson L.geoJSON accepts
plotZipcode(layers, geojson) ==
    IF geojson = Null
    THEN layers
    ELSE Append(layers, Layer(geojson, "mapConfig.fillColor",
                              [postcode |-> geojson.properties.postcode, message |-> ""]))

CountedSuccessOnly(run, geometry) ==
    IF geometry # Null THEN [run EXCEPT !.successCount = @ + 1] ELSE run

\* lines 187-193: the counters after a resolution that did not throw
Counted(run, geometry) ==
    IF geometry # Null
    THEN [run EXCEPT !.successCount = @ + 1]
    ELSE [run EXCEPT !.failCount = @ + 1]

\* lines 198-201: the catch clause of the loop body
Caught(run) == [run EXCEPT !.failCount = @ + 1]

ShouldFitSeveral(layers) == Len(layers) > 1

\* line 210: layers.length > 0
ShouldFit(layers) == Len(layers) > 0

\* The loop head for position i, or the code after the loop (lines 204-213)
\* when the list is exhausted: the invocation, the status text and the view
\* it leaves.  The first request of fetchZipcodeGeometry is issued in the
\* same run of JavaScript.
EnterIteration(run, i, paused, layers, zipcodes, view) ==
    IF i <= Len(zipcodes)
    THEN [run |-> [run EXCEPT !.pc = "fetch", !.req = "pdok", !.i = i,
                              !.pausedBefore = paused],
          status |-> StatusLoading(zipcodes[i]),
          viewport |-> view]
    ELSE [run |-> [run EXCEPT !.pc = "done", !.req = "none",
                              !.fits = IF ShouldFit(layers) THEN @ + 1 ELSE @],
          status |-> StatusLoaded(run.successCount, run.failCount),
          viewport |-> IF ShouldFit(layers) THEN FitBounds(GroupBounds(layers)) ELSE view]

\* line 323: the initial invocation is awaited before the handlers are added
BootAfter(r, run) ==
    IF r # 1 THEN boot ELSE IF run.pc = "done" THEN "ready" ELSE "plotting"

\* invocation r goes on to position i
Proceed(r, run, i, paused) ==
    LET entered == EnterIteration(run, i, paused, layerGroup, config, viewport) IN
    /\ runs' = [runs EXCEPT ![r] = entered.run]
    /\ status' = entered.status
    /\ viewport' = entered.viewport
    /\ boot' = BootAfter(r, entered.run)

\* fetchZipcodeGeometry returned `geometry` to the loop body (lines 185-201)
RunResolved(r, geometry) ==
    IF geometry # Null /\ ~CanRender(geometry)
    THEN \* L.geoJSON throws in plotZipcode: the catch clause, then the next code
         /\ layerGroup' = layerGroup
         /\ Proceed(r, Caught(runs[r]), runs[r].i + 1, FALSE)
    ELSE /\ layerGroup' = plotZipcode(layerGroup, geometry)
         /\ runs' = [runs EXCEPT ![r] =
                        [Counted(runs[r], geometry) EXCEPT
                            !.pc = "delay", !.req = "none",
                            !.added = @ + Len(plotZipcode(layerGroup, geometry))
                                        - Len(layerGroup)]]
         /\ UNCHANGED <<status, viewport, boot>>

RunPdokResponds(r, pdok) ==
    /\ runs[r].pc = "fetch" /\ runs[r].req = "pdok"
    /\ LET after == AfterPdok(config[runs[r].i], pdok) IN
         IF after.next = "nominatim"
         THEN /\ runs' = [runs EXCEPT ![r].req = "nominatim"]
              /\ UNCHANGED <<layerGroup, status, viewport, boot>>
         ELSE RunResolved(r, after.value)
    /\ UNCHANGED <<config, searchLayerGroup, searchResult, zipcodeInput, searches, call>>

RunNominatimResponds(r, nominatim) ==
    /\ runs[r].pc = "fetch" /\ runs[r].req = "nominatim"
    /\ RunResolved(r, fetchFromNominatim(config[runs[r].i], nominatim))
    /\ UNCHANGED <<config, searchLayerGroup, searchResult, zipcodeInput, searches, call>>

RunDelayNeverElapses(r) ==
    /\ runs[r].pc = "delay"
    /\ UNCHANGED vars

RunDelayElapsedSkipsOne(r) ==
    /\ runs[r].pc = "delay"
    /\ Proceed(r, runs[r], runs[r].i + 2, TRUE)
    /\ UNCHANGED <<config, layerGroup, searchLayerGroup, searchResult, zipcodeInput,
                   searches, call>>

\* line 196: the 500 ms timer fired
RunDelayElapsed(r) ==
    /\ runs[r].pc = "delay"
    /\ Proceed(r, runs[r], runs[r].i + 1, TRUE)
    /\ UNCHANGED <<config, layerGroup, searchLayerGroup, searchResult, zipcodeInput,
                   searches, call>>

----------------------------------------------------------------------------
(* Page load (lines 313-368) and the reload button *)

\* config.json was fetched and decoded: the constructor, then plotAllZipcodes
ConfigLoaded(zipcodes) ==
    /\ boot = "loading"
    /\ config' = zipcodes
    /\ layerGroup' = <<>>
    /\ LET entered == EnterIteration(IdleRun, 1, TRUE, <<>>, zipcodes, InitialView) IN
         /\ runs' = [runs EXCEPT ![1] = entered.run]
         /\ status' = entered.status
         /\ viewport' = entered.viewport
         /\ boot' = BootAfter(1, entered.run)
    /\ UNCHANGED <<searchLayerGroup, searchResult, zipcodeInput, searches, call>>

ConfigFailsSilently ==
    /\ boot = "loading"
    /\ boot' = "failed"
    /\ UNCHANGED <<config, layerGroup, searchLayerGroup, viewport, status, searchResult,
                   zipcodeInput, runs, searches, call>>

\* fetch('./config.json') or response.json() threw: the catch of line 361
ConfigFails ==
    /\ boot = "loading"
    /\ boot' = "failed"
    /\ status' = StatusConfigError
    /\ UNCHANGED <<config, layerGroup, searchLayerGroup, viewport, searchResult,
                   zipcodeInput, runs, searches, call>>

\* clearAll
clearAll(layers) == <<>>

\* the record of an invocation that has ended is dropped when a later one starts
ArchivedRun == [IdleRun EXCEPT !.pc = "archived"]

ArchiveRuns(rs) == [q \in Runs |-> IF rs[q].pc = "done" THEN ArchivedRun ELSE rs[q]]

\* lines 328-331: mapper.clearAll(); await mapper.plotAllZipcodes()
ReloadClick(r) ==
    /\ boot = "ready"
    /\ runs[r].pc = "idle"
    /\ \A q \in Runs : q < r => runs[q].pc # "idle"
    /\ layerGroup' = clearAll(layerGroup)
    /\ LET entered == EnterIteration(IdleRun, 1, TRUE, clearAll(layerGroup), config, viewport) IN
         /\ runs' = [ArchiveRuns(runs) EXCEPT ![r] = entered.run]
         /\ status' = entered.status
         /\ viewport' = entered.viewport
    /\ UNCHANGED <<boot, config, searchLayerGroup, searchResult, zipcodeInput, searches, call>>

----------------------------------------------------------------------------
(* The Search/Highlight Controller: searchZipcode, plotZipcodeWithStyle,   *)
(* clearSearch                                                             *)

\* One invocation of searchZipcode.  pc is where it waits: "style" (in the
\* fetchZipcodeGeometry of plotZipcodeWithStyle), "zoom" (in the one of line
\* 287) or "done".  zipcode is the trimmed code.  The other fields record
\* what the invocation did: whether it issued a request, what its first
\* resolution returned, the colour it rendered with, the classification it
\* wrote (line 279 or 283), the last text it wrote, and whether it called
\* fitBounds.
IdleSearch ==
    [pc |-> "idle", req |-> "none", zipcode |-> <<>>, requested |-> FALSE,
     resolved |-> "none", rendered |-> "none", reported |-> "none",
     outcome |-> "none", fitted |-> FALSE]

Searches == 1..MaxSearches

\* what the user may have typed when the search is triggered
Inputs ==
    { <<"3","5","7","2","R","B">>,       \* "3572RB"
      <<"A","B","1","2">>,               \* "AB12"
      <<"1","2">>,                       \* "12"
      <<>>,                              \* ""
      <<" ","1","9","5","1"," ">>,       \* " 1951 "
      <<"1","9","5","1","2">>,           \* "19512"
      <<"1","2","-","4">> }              \* "12-4"

PollutedColor == "#e74c3c"
SafeColor == "#27ae60"

TextInvalid == "Please enter a valid 4-digit zipcode"
TextChecking == "Checking..."
TextPolluted == "Your water supply might be polluted!"
TextSafe == "Your water supply is safe to drink!"
TextError == "Error searching zipcode"

RejectedOnlyEmpty(zipcode) == zipcode = <<>>

\* line 267: !zipcode || zipcode.length !== 4
Rejected(zipcode) == zipcode = <<>> \/ Len(zipcode) # 4

ColorForSwapped(zipcodes, zipcode) ==
    IF Includes(zipcodes, zipcode) THEN SafeColor ELSE PollutedColor

\* lines 276-284: the colour and the text chosen for a code
ColorFor(zipcodes, zipcode) ==
    IF Includes(zipcodes, zipcode) THEN PollutedColor ELSE SafeColor

TextFor(zipcodes, zipcode) ==
    IF Includes(zipcodes, zipcode) THEN TextPolluted ELSE TextSafe

\* the outcome a text of lines 279/283 stands for
Classification(text) == IF text = TextPolluted THEN "matched" ELSE "safe"

\* line 246: the popup message of plotZipcodeWithStyle
PopupMessage(isPolluted) == IF isPolluted THEN "POLLUTED WATER!" ELSE "Safe to drink"

clearSearchKeepsLayers(layers) == layers

\* clearSearch
clearSearch(layers) == <<>>

\* the record of an invocation that has ended is dropped when a later one starts
ArchivedSearch == [IdleSearch EXCEPT !.pc = "archived"]

ArchiveSearches(ss) ==
    [q \in Searches |-> IF ss[q].pc = "done" THEN ArchivedSearch ELSE ss[q]]

\* lines 258-272, up to the first await; the button and the Enter key run
\* the same handler body (lines 340-349)
SearchTrigger(s, input) ==
    /\ boot = "ready"
    /\ searches[s].pc = "idle"
    /\ \A q \in Searches : q < s => searches[q].pc # "idle"
    /\ zipcodeInput' = input
    /\ searchLayerGroup' = clearSearch(searchLayerGroup)
    /\ LET zipcode == trimZipcode(Trim(input)) IN
         IF Rejected(zipcode)
         THEN /\ searchResult' = TextInvalid
              /\ searches' = [ArchiveSearches(searches) EXCEPT ![s] =
                    [IdleSearch EXCEPT !.pc = "done", !.zipcode = zipcode,
                                       !.outcome = "invalid"]]
         ELSE /\ searchResult' = TextChecking
              /\ searches' = [ArchiveSearches(searches) EXCEPT ![s] =
                    [IdleSearch EXCEPT !.pc = "style", !.req = "pdok", !.zipcode = zipcode,
                                       !.requested = TRUE, !.outcome = "checking"]]
    /\ UNCHANGED <<boot, config, layerGroup, viewport, status, runs, call>>

\* plotZipcodeWithStyle returned (or threw) and lines 279/283 and 287 ran
Styled(s, geometry) ==
    LET zipcode == searches[s].zipcode
        isPolluted == Includes(config, zipcode)
        classified == Classification(TextFor(config, zipcode))
    IN
    IF geometry # Null /\ ~CanRender(geometry)
    THEN \* L.geoJSON throws: the catch of line 294
         /\ searchLayerGroup' = searchLayerGroup
         /\ searchResult' = TextError
         /\ searches' = [searches EXCEPT ![s] =
               [@ EXCEPT !.pc = "done", !.req = "none", !.resolved = "feature",
                         !.outcome = "error"]]
    ELSE /\ searchLayerGroup' =
               IF geometry = Null
               THEN searchLayerGroup
               ELSE Append(searchLayerGroup,
                           Layer(geometry, ColorFor(config, zipcode),
                                 [postcode |-> zipcode,
                                  message |-> PopupMessage(isPolluted)]))
         /\ searchResult' = TextFor(config, zipcode)
         /\ searches' = [searches EXCEPT ![s] =
               [@ EXCEPT !.pc = "zoom", !.req = "pdok",
                         !.resolved = IF geometry = Null THEN "absent" ELSE "feature",
                         !.rendered = IF geometry = Null THEN "none"
                                      ELSE ColorFor(config, zipcode),
                         !.reported = classified,
                         !.outcome = classified]]

\* line 288: geometry && geometry.geometry?.coordinates?.[0]
HasFirstRing(geometry) == geometry # Null /\ Len(geometry.geometry.coordinates) >= 1

\* lines 287-292: the second resolution returned
Zoomed(s, geometry) ==
    IF HasFirstRing(geometry)
    THEN LET coords == geometry.geometry.coordinates[1]
             pairs == { coords[k] : k \in 1..Len(coords) }
         IN IF \A pair \in pairs : ValidLatLng(pair)
            THEN /\ viewport' = FitBounds(BoundsOf(pairs))
                 /\ searchResult' = searchResult
                 /\ searches' = [searches EXCEPT ![s] =
                       [@ EXCEPT !.pc = "done", !.req = "none", !.fitted = TRUE]]
            ELSE \* L.latLngBounds throws: the catch of line 294
                 /\ viewport' = viewport
                 /\ searchResult' = TextError
                 /\ searches' = [searches EXCEPT ![s] =
                       [@ EXCEPT !.pc = "done", !.req = "none", !.outcome = "error"]]
    ELSE /\ viewport' = viewport
         /\ searchResult' = searchResult
         /\ searches' = [searches EXCEPT ![s] = [@ EXCEPT !.pc = "done", !.req = "none"]]

SearchResolved(s, geometry) ==
    IF searches[s].pc = "style"
    THEN Styled(s, geometry) /\ viewport' = viewport
    ELSE Zoomed(s, geometry) /\ searchLayerGroup' = searchLayerGroup

SearchPdokResponds(s, pdok) ==
    /\ searches[s].pc \in {"style", "zoom"} /\ searches[s].req = "pdok"
    /\ LET after == AfterPdok(searches[s].zipcode, pdok) IN
         IF after.next = "nominatim"
         THEN /\ searches' = [searches EXCEPT ![s].req = "nominatim"]
              /\ UNCHANGED <<searchLayerGroup, searchResult, viewport>>
         ELSE SearchResolved(s, after.value)
    /\ UNCHANGED <<boot, config, layerGroup, status, zipcodeInput, runs, call>>

SearchNominatimResponds(s, nominatim) ==
    /\ searches[s].pc \in {"style", "zoom"} /\ searches[s].req = "nominatim"
    /\ SearchResolved(s, fetchFromNominatim(searches[s].zipcode, nominatim))
    /\ UNCHANGED <<boot, config, layerGroup, status, zipcodeInput, runs, call>>

ClearClickBothOverlays ==
    /\ boot = "ready"
    /\ searchLayerGroup' = <<>>
    /\ layerGroup' = <<>>
    /\ searchResult' = ""
    /\ zipcodeInput' = <<>>
    /\ UNCHANGED <<boot, config, viewport, status, runs, searches, call>>

\* lines 353-358: mapper.clearSearch(); zipcodeInput.value = ''
ClearClick ==
    /\ boot = "ready"
    /\ searchLayerGroup' = clearSearch(searchLayerGroup)
    /\ searchResult' = ""
    /\ zipcodeInput' = <<>>
    /\ UNCHANGED <<boot, config, layerGroup, viewport, status, runs, searches, call>>

----------------------------------------------------------------------------
(* One call of fetchZipcodeGeometry on its own, with everything it met     *)
(* kept: the requests in the order issued, both answers, and the value     *)
(* returned.                                                               *)

NoPdok == [kind |-> "None", docs |-> <<>>]
NoNominatim == [kind |-> "None", results |-> <<>>]

IdleCall ==
    [state |-> "idle", zipcode |-> <<>>, requests |-> <<>>,
     pdok |-> NoPdok, nominatim |-> NoNominatim, value |-> Null]

ResolverInputs == { AllZipcodes[k] : k \in 1..Len(AllZipcodes) }

\* line 53: the primary request is issued
ResolveCall(zipcode) ==
    /\ call.state \in {"idle", "returned"}
    /\ call' = [IdleCall EXCEPT !.state = "pdok", !.zipcode = zipcode,
                                !.requests = <<"pdok">>]
    /\ UNCHANGED appVars

ResolvePdokResponds(pdok) ==
    /\ call.state = "pdok"
    /\ LET after == AfterPdok(call.zipcode, pdok) IN
         call' = IF after.next = "nominatim"
                 THEN [call EXCEPT !.state = "nominatim", !.pdok = pdok,
                                   !.requests = Append(@, "nominatim")]
                 ELSE [call EXCEPT !.state = "returned", !.pdok = pdok,
                                   !.value = after.value]
    /\ UNCHANGED appVars

ResolveNominatimResponds(nominatim) ==
    /\ call.state = "nominatim"
    /\ call' = [call EXCEPT !.state = "returned", !.nominatim = nominatim,
                            !.value = fetchFromNominatim(call.zipcode, nominatim)]
    /\ UNCHANGED appVars

\* One call of createApproximatePolygon on its own, with its arguments kept.
\* The centers: latitudes 0, 52.3676 and 60 degrees and Infinity (a text
\* "Infinity" passes the isNaN test of line 64); longitudes on both sides of
\* the meridian.  The labels: configured codes and codes a search passes on.
Lats == {0, 523676, 600000, Infinity}

Lons == {0, 49041, -49041, 1790000, Infinity}

Labels == ResolverInputs \cup { <<"3","5","7","2">>, <<"1","2","-","4">> }

Approximate(lat, lon, zipcode) ==
    /\ call.state \in {"idle", "approximated"}
    /\ call' = [state |-> "approximated", lat |-> lat, lon |-> lon, zipcode |-> zipcode,
                value |-> createApproximatePolygon(lat, lon, zipcode)]
    /\ UNCHANGED appVars

----------------------------------------------------------------------------
(* Specifications *)

\* the page before config.json has arrived
Init ==
    /\ boot = "loading"
    /\ config = <<>>
    /\ layerGroup = <<>>
    /\ searchLayerGroup = <<>>
    /\ viewport = InitialView
    /\ status = StatusBlank
    /\ searchResult = ""
    /\ zipcodeInput = <<>>
    /\ runs = [r \in Runs |-> IdleRun]
    /\ searches = [s \in Searches |-> IdleSearch]
    /\ call = IdleCall

\* the bulk overlay after an initial run in which the fallback service
\* returned GeoPolygon for every code
AllPlotted(zipcodes) ==
    [k \in 1..Len(zipcodes) |->
        Layer(Feature(zipcodes[k], GeoPolygon), "mapConfig.fillColor",
              [postcode |-> zipcodes[k], message |-> ""])]

\* the page once the initial run has ended and the handlers are registered:
\* either every code was plotted from the fallback service, or none resolved
InitReady ==
    /\ boot = "ready"
    /\ config = SubSeq(AllZipcodes, 1, MaxCodes)
    /\ \E plotted \in BOOLEAN :
         /\ plotted => Len(config) > 0
         /\ layerGroup = IF plotted THEN AllPlotted(config) ELSE <<>>
         /\ viewport = IF plotted THEN FitBounds(GroupBounds(AllPlotted(config)))
                       ELSE InitialView
         /\ status = IF plotted THEN StatusLoaded(Len(config), 0)
                     ELSE StatusLoaded(0, Len(config))
         /\ runs = [r \in Runs |->
                      IF r > 1 THEN IdleRun
                      ELSE [IdleRun EXCEPT
                              !.pc = "done", !.i = Len(config),
                              !.successCount = IF plotted THEN Len(config) ELSE 0,
                              !.added = IF plotted THEN Len(config) ELSE 0,
                              !.failCount = IF plotted THEN 0 ELSE Len(config),
                              !.fits = IF plotted THEN 1 ELSE 0]]
    /\ searchLayerGroup = <<>>
    /\ searchResult = ""
    /\ zipcodeInput = <<>>
    /\ searches = [s \in Searches |-> IdleSearch]
    /\ call = IdleCall

NextResolve ==
    \/ \E zipcode \in ResolverInputs : ResolveCall(zipcode)
    \/ \E pdok \in PdokOutcomes : ResolvePdokResponds(pdok)
    \/ \E nominatim \in NominatimOutcomes : ResolveNominatimResponds(nominatim)

NextBatch ==
    \/ \E zipcodes \in Configs : ConfigLoaded(zipcodes)
    \/ ConfigFails
    \/ \E r \in Runs, pdok \in PdokOutcomes : RunPdokResponds(r, pdok)
    \/ \E r \in Runs, nominatim \in NominatimOutcomes : RunNominatimResponds(r, nominatim)
    \/ \E r \in Runs : RunDelayElapsed(r)
    \/ \E r \in Runs : ReloadClick(r)

NextSearch ==
    \/ \E s \in Searches, input \in Inputs : SearchTrigger(s, input)
    \/ \E s \in Searches, pdok \in PdokOutcomes : SearchPdokResponds(s, pdok)
    \/ \E s \in Searches, nominatim \in NominatimOutcomes : SearchNominatimResponds(s, nominatim)
    \/ ClearClick

Next == NextBatch \/ NextSearch

\* the resolver alone
SpecResolve == Init /\ [][NextResolve]_vars

NextApprox ==
    \E lat \in Lats, lon \in Lons, zipcode \in Labels : Approximate(lat, lon, zipcode)

\* the approximator alone
SpecApprox == Init /\ [][NextApprox]_vars

\* page load, the batch runs and the reload button
SpecBatch == Init /\ [][NextBatch]_vars

\* every request of a run is eventually answered (with a response or an
\* error) and every timer eventually fires
RunsProgress ==
    \A r \in Runs :
        /\ WF_vars(\E pdok \in PdokOutcomes : RunPdokResponds(r, pdok))
        /\ WF_vars(\E nominatim \in NominatimOutcomes : RunNominatimResponds(r, nominatim))
        /\ WF_vars(RunDelayElapsed(r))

\* the batch plotter on a network and a timer that always come back
SpecBatchLive == Init /\ [][NextBatch]_vars /\ RunsProgress

\* the search and clear controls of a loaded page
SpecSearch == InitReady /\ [][NextSearch]_vars

\* the whole page
Spec == Init /\ [][Next]_vars

\* A user who waits for the control they used: reload is clicked only when
\* no batch run is in progress, a search is triggered only when no search is
\* awaiting a resolution.  Batch runs and searches still interleave freely.
NoRunInProgress == \A q \in Runs : runs[q].pc \in {"idle", "done", "archived"}

NoSearchInFlight == \A q \in Searches : searches[q].pc \in {"idle", "done", "archived"}

ReloadWhenIdle(r) == NoRunInProgress /\ ReloadClick(r)

SearchWhenIdle(s, input) == NoSearchInFlight /\ SearchTrigger(s, input)

NextPage ==
    \/ \E zipcodes \in Configs : ConfigLoaded(zipcodes)
    \/ ConfigFails
    \/ \E r \in Runs, pdok \in PdokOutcomes : RunPdokResponds(r, pdok)
    \/ \E r \in Runs, nominatim \in NominatimOutcomes : RunNominatimResponds(r, nominatim)
    \/ \E r \in Runs : RunDelayElapsed(r)
    \/ \E r \in Runs : ReloadWhenIdle(r)
    \/ \E s \in Searches, input \in Inputs : SearchWhenIdle(s, input)
    \/ \E s \in Searches, pdok \in PdokOutcomes : SearchPdokResponds(s, pdok)
    \/ \E s \in Searches, nominatim \in NominatimOutcomes : SearchNominatimResponds(s, nominatim)
    \/ ClearClick

\* the whole page from its load on, used by such a user
SpecPage == Init /\ [][NextPage]_vars

----------------------------------------------------------------------------
(* Properties of the resolver (SpecResolve) *)

\* C1: a call of fetchZipcodeGeometry that has returned gave either null or
\* a Feature whose properties.postcode is the code asked for and whose
\* geometry is present, whatever the two services answered; a call is only
\* ever waiting for one of the two services or has returned (nothing escapes
\* it as an exception).
C1_FeatureOrAbsent ==
    /\ call.state \in {"idle", "pdok", "nominatim", "returned"}
    /\ call.state = "returned" =>
         \/ call.value = Null
         \/ /\ call.value.type = "Feature"
            /\ call.value.properties.postcode = call.zipcode
            /\ call.value.geometry # NoGeometry

\* a Feature came back from the fallback service after the primary had no record
C1_Witness ==
    /\ call.state = "returned"
    /\ call.value # Null
    /\ call.pdok.kind = "Ok" /\ call.pdok.docs = <<>>
    /\ call.nominatim.kind = "Ok"

\* C2: when the primary request or the decoding of its response fails, the
\* fallback service is still queried before the call returns.
C2_FallbackAfterPrimaryFailure ==
    (call.state = "returned" /\ call.pdok.kind \in {"NetworkError", "MalformedBody"})
        => call.requests = <<"pdok", "nominatim">>

NoMatchingRecord(pdok) == pdok.docs = <<>>

LacksCentroid(pdok) == pdok.docs # <<>> /\ ~pdok.docs[1].centroide_ll.present

ParsesToTwoNumbers(centroide_ll) ==
    /\ centroide_ll.point
    /\ Len(centroide_ll.tokens) >= 2
    /\ Number(centroide_ll.tokens[1]) # NaN
    /\ Number(centroide_ll.tokens[2]) # NaN

CentroidDoesNotParse(pdok) ==
    /\ pdok.docs # <<>>
    /\ pdok.docs[1].centroide_ll.present
    /\ ~ParsesToTwoNumbers(pdok.docs[1].centroide_ll)

\* C3: the requests of one call are [primary] or [primary, fallback], in
\* that order and each at most once; the fallback is queried exactly when
\* the primary response (one that arrived and was decoded) has no matching
\* record, lacks a centroid, or has a centroid that does not parse to two
\* numbers; with a centroid that parses, the call returns the approximated
\* polygon and the fallback is not contacted.
C3_RequestSequence ==
    /\ call.state # "idle" => call.requests \in { <<"pdok">>, <<"pdok", "nominatim">> }
    /\ call.state = "pdok" => call.requests = <<"pdok">>
    /\ call.state = "nominatim" => call.requests = <<"pdok", "nominatim">>
    /\ call.state = "returned" =>
         /\ call.requests = <<"pdok", "nominatim">>
              <=> /\ call.pdok.kind = "Ok"
                  /\ \/ NoMatchingRecord(call.pdok)
                     \/ LacksCentroid(call.pdok)
                     \/ CentroidDoesNotParse(call.pdok)
         /\ ( /\ call.pdok.kind = "Ok"
              /\ call.pdok.docs # <<>>
              /\ call.pdok.docs[1].centroide_ll.present
              /\ ParsesToTwoNumbers(call.pdok.docs[1].centroide_ll) )
              => /\ call.requests = <<"pdok">>
                 /\ call.value.geometry.type = "Polygon"
                 /\ Len(call.value.geometry.coordinates[1]) = points + 1

\* the fallback was queried because the centroid text did not parse
C3_Witness ==
    /\ call.state = "returned"
    /\ call.requests = <<"pdok", "nominatim">>
    /\ CentroidDoesNotParse(call.pdok)

----------------------------------------------------------------------------
(* Properties of the approximator (SpecApprox) *)

\* C13: for every center and label createApproximatePolygon returns a
\* Feature whose postcode is the label and whose geometry is a Polygon of
\* one ring of 21 pairs (20 vertices and the closing one), the last pair
\* equal to the first, each pair in (longitude, latitude) order: the second
\* component runs from lat + radius (vertex 0) over lat (vertex 5) to
\* lat - radius (vertex 10), the first component of vertex 0 is lon.
C13_RingOf21Closed ==
    call.state = "approximated" =>
        /\ call.value.type = "Feature"
        /\ call.value.properties.postcode = call.zipcode
        /\ call.value.geometry.type = "Polygon"
        /\ Len(call.value.geometry.coordinates) = 1
        /\ LET ring == call.value.geometry.coordinates[1] IN
             /\ Len(ring) = 21
             /\ \A k \in 1..21 : Len(ring[k]) = 2
             /\ ring[21] = ring[1]
             /\ ring[1][2] = Add(call.lat, 200)
             /\ ring[6][2] = call.lat
             /\ ring[11][2] = Add(call.lat, -200)
             /\ call.lat # Infinity => ring[1][1] = call.lon

\* a center at 60 degrees north: the vertex due east lies twice the radius
\* away in longitude
C13_Witness ==
    /\ call.state = "approximated"
    /\ call.lat = 600000 /\ call.lon = 49041
    /\ call.value.geometry.coordinates[1][6] = <<49041 + 400, 600000>>
    /\ call.value.geometry.coordinates[1][16] = <<49041 - 400, 600000>>

----------------------------------------------------------------------------
(* Properties of the batch plotter (SpecBatch) *)

InLoop(run) == run.pc \in {"fetch", "delay", "done"}

\* the codes an invocation has finished processing
Processed(run) ==
    CASE run.pc = "fetch" -> run.i - 1
      [] run.pc = "delay" -> run.i
      [] run.pc = "done"  -> Len(config)
      [] OTHER            -> 0

\* C4: a batch run processes every code: at every point of the loop each
\* code processed so far was counted once, as a success or as a failure,
\* and the layers the run added are as many as its successes, so that at
\* the end success + failed = N and exactly `success` features were added;
\* a step in which a code is counted as failed adds no layer, removes none
\* and leaves the run in its loop (or at its normal end).
C4_BatchCountsEveryCode ==
    /\ [](\A r \in Runs :
            InLoop(runs[r]) =>
               /\ runs[r].successCount + runs[r].failCount = Processed(runs[r])
               /\ runs[r].added = runs[r].successCount
               /\ runs[r].pc = "done" =>
                     runs[r].successCount + runs[r].failCount = Len(config))
    /\ [][\A r \in Runs :
            (runs[r].pc = "fetch" /\ runs'[r].failCount = runs[r].failCount + 1)
               => /\ layerGroup' = layerGroup
                  /\ runs'[r].successCount = runs[r].successCount
                  /\ runs'[r].added = runs[r].added
                  /\ InLoop(runs'[r])]_vars

\* a run over two codes ended with one success and one failure, the
\* plotted feature still in the overlay
C4_Witness ==
    \E r \in Runs :
        /\ runs[r].pc = "done"
        /\ Len(config) = 2
        /\ runs[r].successCount = 1 /\ runs[r].failCount = 1
        /\ Len(layerGroup) = 1

\* C5: in a batch run the request for every code after the first is issued
\* only after the delay has elapsed since the previous code was processed,
\* on every path through the previous iteration.
C5_DelayBeforeEveryNextCode ==
    \A r \in Runs :
        (runs[r].pc = "fetch" /\ runs[r].i >= 2) => runs[r].pausedBefore

\* C6 as stated: at the end of a batch run the viewport was fit (once) if
\* and only if that run plotted at least one feature.
C6_FitIffRunPlotted ==
    \A r \in Runs :
        runs[r].pc = "done" => runs[r].fits = (IF runs[r].added > 0 THEN 1 ELSE 0)

\* C6 as amended: the step that ends a batch run fits the viewport, once and
\* with the fixed padding, to the bounds of the bulk overlay if and only if
\* the overlay holds at least one layer at that moment, whichever run added
\* it; with an empty overlay the viewport is left as it was.
C6_FitIffOverlayNonEmpty ==
    [][\A r \in Runs :
          (runs[r].pc # "done" /\ runs'[r].pc = "done") =>
              IF Len(layerGroup') > 0
              THEN /\ viewport' = [kind |-> "fitBounds",
                                   bounds |-> GroupBounds(layerGroup'),
                                   padding |-> padding]
                   /\ runs'[r].fits = 1
              ELSE /\ viewport' = viewport
                   /\ runs'[r].fits = 0]_vars

\* a run that plotted nothing ended with a fit, to layers of an earlier run
C6_Witness ==
    \E r \in Runs :
        /\ runs[r].pc = "done"
        /\ runs[r].added = 0
        /\ runs[r].fits = 1
        /\ viewport.kind = "fitBounds"

----------------------------------------------------------------------------
(* Properties of the search controller (SpecSearch) *)

\* C7: a search whose first resolution was absent surfaces an error
\* outcome, never the matched or the safe one.
C7_AbsentSurfacesError ==
    \A s \in Searches :
        searches[s].resolved = "absent" =>
            /\ searches[s].reported = "none"
            /\ searches[s].outcome \notin {"matched", "safe"}

\* C8: a search whose input, trimmed and stripped of letters, is empty or
\* not 4 characters long ends at once with the invalid-input text: it has
\* issued no request, rendered nothing and fit nothing, and the step that
\* runs it adds no layer to either overlay and leaves the viewport alone;
\* any other input is not reported invalid.
C8_InvalidInputStops ==
    /\ [](\A s \in Searches :
            searches[s].outcome = "invalid" =>
               /\ searches[s].pc = "done" /\ searches[s].req = "none"
               /\ ~searches[s].requested
               /\ searches[s].rendered = "none"
               /\ ~searches[s].fitted)
    /\ [][\A s \in Searches :
            (searches[s].pc = "idle" /\ searches'[s].pc # "idle") =>
               LET stripped == trimZipcode(Trim(zipcodeInput')) IN
               IF stripped = <<>> \/ Len(stripped) # 4
               THEN /\ searches'[s].outcome = "invalid"
                    /\ searchResult' = TextInvalid
                    /\ viewport' = viewport
                    /\ layerGroup' = layerGroup
                    /\ searchLayerGroup' = <<>>
               ELSE /\ searches'[s].outcome # "invalid"
                    /\ searches'[s].requested]_vars

\* "AB12" was searched: stripped to "12" and rejected
C8_Witness ==
    \E s \in Searches :
        /\ searches[s].outcome = "invalid"
        /\ zipcodeInput = <<"A", "B", "1", "2">>
        /\ searches[s].zipcode = <<"1", "2">>
        /\ searchResult = TextInvalid

\* C9: every code a search passes to the resolver is a string of exactly 4
\* decimal digits.
C9_ResolverGetsPostalCodes ==
    \A s \in Searches : searches[s].requested => IsPostalCode(searches[s].zipcode)

\* C10: the colour a search rendered its feature with and the outcome it
\* reported are both the ones of the code's membership in config.zipcodes
\* (red and matched for a member, green and safe otherwise), so they never
\* disagree; a search whose first resolution was a Feature has rendered it
\* and reported that outcome unless the map host refused the geometry, in
\* which case nothing is rendered and the error text is shown.
C10_StyleAndOutcomeFollowMembership ==
    \A s \in Searches :
        LET member == \E k \in 1..Len(config) : config[k] = searches[s].zipcode IN
        /\ searches[s].rendered # "none" =>
              /\ searches[s].rendered = (IF member THEN "#e74c3c" ELSE "#27ae60")
              /\ searches[s].reported = (IF member THEN "matched" ELSE "safe")
        /\ searches[s].reported # "none" =>
              searches[s].reported = (IF member THEN "matched" ELSE "safe")
        /\ (searches[s].resolved = "feature" /\ searches[s].rendered = "none") =>
              /\ searches[s].pc = "done"
              /\ searches[s].outcome = "error"
              /\ searches[s].reported = "none"

\* a member code was rendered red and reported matched, the layer on the map
C10_Witness ==
    \E s \in Searches :
        /\ searches[s].rendered = "#e74c3c"
        /\ searches[s].reported = "matched"
        /\ Len(searchLayerGroup) = 1
        /\ searchLayerGroup[1].fillColor = "#e74c3c"
        /\ searchResult = TextPolluted

----------------------------------------------------------------------------
(* Properties of the whole page (SpecPage) *)

\* C11: the two overlays are independent: a step of the batch plotter or of
\* the reload handler (clearAll included) leaves the search overlay exactly
\* as it was, and a step of the search controller or of the clear handler
\* (clearSearch included) leaves the bulk overlay exactly as it was; no step
\* changes both.
C11_OverlaysIndependent ==
    [][ /\ (runs' # runs \/ boot' # boot \/ status' # status)
              => searchLayerGroup' = searchLayerGroup
        /\ (searches' # searches \/ searchResult' # searchResult
              \/ zipcodeInput' # zipcodeInput)
              => layerGroup' = layerGroup
        /\ layerGroup' # layerGroup => searchLayerGroup' = searchLayerGroup
        /\ searchLayerGroup' # searchLayerGroup => layerGroup' = layerGroup ]_vars

\* a reload run has plotted a code while the search overlay holds the
\* feature of a search
C11_Witness ==
    /\ \E r \in Runs : r > 1 /\ runs[r].pc = "delay" /\ runs[r].added = 1
    /\ Len(layerGroup) = 1
    /\ Len(searchLayerGroup) = 1
    /\ \E s \in Searches : searches[s].rendered # "none"

\* C12: when loading the configuration fails the status surface shows the
\* load error, no batch run has started, no request of a run or of a search
\* has been issued, both overlays are empty, and nothing happens afterwards:
\* no reload, search or clear handler ever runs.
C12_ConfigFailureIsFatal ==
    /\ [](boot = "failed" =>
            /\ status = [text |-> "Error loading configuration", zipcode |-> <<>>,
                         successCount |-> 0, failCount |-> 0]
            /\ \A r \in Runs : runs[r].pc = "idle" /\ runs[r].req = "none"
            /\ \A s \in Searches : searches[s].pc = "idle" /\ ~searches[s].requested
            /\ layerGroup = <<>> /\ searchLayerGroup = <<>>
            /\ config = <<>>)
    /\ [][boot # "failed"]_vars

\* the configuration failed to load
C12_Witness == boot = "failed" /\ status.text = "Error loading configuration"

----------------------------------------------------------------------------
(* Further properties of the search controller (SpecSearch) *)

\* C14: clearSearch is idempotent.  A step of the clear handler (the only
\* step here that starts or continues no search) leaves the search overlay
\* empty and the search status blank and touches neither the bulk overlay
\* nor the viewport; run again in the state it leaves (overlay empty, status
\* blank), it changes none of the four.
C14_ClearSearchIdempotent ==
    [][ searches' = searches =>
          /\ searchLayerGroup' = <<>>
          /\ searchResult' = ""
          /\ layerGroup' = layerGroup
          /\ viewport' = viewport
          /\ (searchLayerGroup = <<>> /\ searchResult = "") =>
                /\ searchLayerGroup' = searchLayerGroup
                /\ searchResult' = searchResult
                /\ layerGroup' = layerGroup
                /\ viewport' = viewport ]_vars

\* a search rendered its feature and wrote its outcome, and a clear removed both
C14_Witness ==
    /\ searchLayerGroup = <<>>
    /\ searchResult = ""
    /\ \E s \in Searches : searches[s].pc = "done" /\ searches[s].rendered # "none"

----------------------------------------------------------------------------
(* Further properties of the batch plotter (SpecBatch) *)

\* C15: within one batch run the codes are resolved in the order of the
\* configured list, one at a time.  A run waits for at most one request,
\* that of the code at its position i; the status names that code; the
\* fallback request of a code follows the primary request of the same code;
\* the position only ever moves from i to i + 1, and only in a step of the
\* run itself in which it was waiting for the answer to a request of code i or for the
\* delay after code i; a run that has ended went through every position.
C15_OneCodeAtATimeInOrder ==
    /\ [](\A r \in Runs :
            /\ runs[r].pc = "fetch" =>
                  /\ runs[r].req \in {"pdok", "nominatim"}
                  /\ runs[r].i \in 1..Len(config)
            /\ runs[r].pc \in {"idle", "delay", "done"} => runs[r].req = "none"
            /\ runs[r].pc = "done" => runs[r].i = Len(config))
    /\ [][\A r \in Runs : runs'[r] # runs[r] =>
            /\ (runs[r].pc = "idle" /\ runs'[r].pc = "fetch") =>
                  runs'[r].i = 1 /\ runs'[r].req = "pdok"
            /\ (runs[r].pc \in {"fetch", "delay"} /\ runs'[r].pc = "fetch") =>
                  \/ /\ runs'[r].i = runs[r].i
                     /\ runs[r].req = "pdok" /\ runs'[r].req = "nominatim"
                  \/ /\ runs'[r].i = runs[r].i + 1
                     /\ runs'[r].req = "pdok"
                     /\ status' = [text |-> "Loading: ...", zipcode |-> config[runs[r].i + 1],
                                   successCount |-> 0, failCount |-> 0]
            /\ (runs[r].pc \in {"fetch", "delay"} /\ runs'[r].pc \in {"delay", "done"}) =>
                  runs'[r].i = runs[r].i
            /\ (runs[r].pc = "delay" /\ runs'[r].pc # "delay") =>
                  runs'[r].pc \in {"fetch", "done"}]_vars

\* a run is waiting for the fallback's answer for its second code, having
\* counted the first
C15_Witness ==
    \E r \in Runs :
        /\ runs[r].pc = "fetch" /\ runs[r].req = "nominatim"
        /\ runs[r].i = 2
        /\ runs[r].successCount + runs[r].failCount = 1

\* C16: when every request is eventually answered and every delay
\* eventually elapses, a batch run that has started terminates: it reaches
\* its end with every configured code counted, and the status then shows
\* the final text with the run's success and failed counts.
C16_BatchRunTerminates ==
    \A r \in Runs :
        (runs[r].pc \in {"fetch", "delay"})
            ~> ( /\ runs[r].pc = "done"
                 /\ runs[r].successCount + runs[r].failCount = Len(config)
                 /\ status.text \in {"Loaded successfully", "Loaded successfully, failed"}
                 /\ status.successCount = runs[r].successCount
                 /\ status.failCount = runs[r].failCount
                 /\ (status.text = "Loaded successfully, failed") = (runs[r].failCount > 0) )

\* a reload run over two codes has ended and its counts are on the status surface
C16_Witness ==
    \E r \in Runs :
        /\ r > 1
        /\ runs[r].pc = "done"
        /\ Len(config) = 2
        /\ status.successCount + status.failCount = 2
        /\ status.successCount = runs[r].successCount

----------------------------------------------------------------------------
(* Overlapping searches and reloads *)

\* the text a finished search leaves on the search status
OutcomeText(outcome) ==
    CASE outcome = "matched" -> "Your water supply might be polluted!"
      [] outcome = "safe"    -> "Your water supply is safe to drink!"
      [] outcome = "error"   -> "Error searching zipcode"
      [] outcome = "invalid" -> "Please enter a valid 4-digit zipcode"
      [] OTHER               -> ""

\* the most recently triggered search
IsLatestSearch(s) ==
    /\ searches[s].pc \notin {"idle", "archived"}
    /\ \A q \in Searches : q > s => searches[q].pc = "idle"

\* C17: once no search is awaiting a resolution, the search overlay holds
\* at most one feature, and if it holds one it is the feature the most
\* recently triggered search rendered, the search status showing that
\* search's outcome.
C17_OverlayIsLatestSearch ==
    (\A s \in Searches : searches[s].pc \in {"idle", "done", "archived"}) =>
        /\ Len(searchLayerGroup) <= 1
        /\ Len(searchLayerGroup) = 1 =>
              \E s \in Searches :
                  /\ IsLatestSearch(s)
                  /\ searches[s].rendered # "none"
                  /\ searchLayerGroup[1].popup.postcode = searches[s].zipcode
                  /\ searchResult = OutcomeText(searches[s].outcome)

\* C18: once the clear handler has run, and as long as no search is
\* triggered, the search overlay stays empty and the search status stays
\* blank: from a state with the overlay empty and the status blank (the
\* state a clear leaves; every search step writes a text), no step other
\* than a search trigger fills the overlay or writes the status, whether or
\* not a search was awaiting its resolution at the time of the clear.
C18_ClearedStaysCleared ==
    [][ ( /\ searchLayerGroup = <<>>
          /\ searchResult = ""
          /\ ~\E s \in Searches : searches[s].pc = "idle" /\ searches'[s].pc # "idle" )
        => (searchLayerGroup' = <<>> /\ searchResult' = "") ]_vars

\* C19: once every batch run has finished, the bulk overlay holds at most
\* one feature per configured code: no two layers carry the same postcode
\* and every layer carries a configured code, however the reloads were
\* timed.
C19_OneFeaturePerCode ==
    (\A r \in Runs : runs[r].pc \in {"idle", "done", "archived"}) =>
        /\ \A j, k \in 1..Len(layerGroup) :
              j # k => layerGroup[j].popup.postcode # layerGroup[k].popup.postcode
        /\ \A j \in 1..Len(layerGroup) :
              \E k \in 1..Len(config) : config[k] = layerGroup[j].popup.postcode

\* C20: in one search the rendering and the viewport agree: a search that
\* has ended after passing validation fit the viewport if and only if it
\* added a feature to the search overlay, whatever its two resolutions
\* returned.
C20_FitIffRendered ==
    \A s \in Searches :
        (searches[s].pc = "done" /\ searches[s].requested) =>
            (searches[s].fitted <=> searches[s].rendered # "none")

====
